---- MODULE Spec2Model ----
(***************************************************************************)
(* A model of api/analyze.py: the serverless handler that reads a CSV      *)
(* table and three flags from a JSON body, optionally drops rows with      *)
(* missing values, z-score normalises the Sales column, sorts by Sales     *)
(* descending, and answers with the rows and the statistics of Sales.      *)
(*                                                                         *)
(* One request is handled per behaviour.  The handler is cut into its      *)
(* numbered steps (dispatch, parse, 3.1 clean, 3.2 normalize, 3.3 sort,    *)
(* 4-5 respond); pc names the step that runs next.                         *)
(*                                                                         *)
(* Numbers are kept as integers in units of 10^-Decimals, which is exact   *)
(* for whole-number input cells and for the z-scores, which the handler    *)
(* rounds to Decimals places.  A CSV text is a sequence of lines and a     *)
(* line a sequence of fields.                                              *)
(***************************************************************************)
EXTENDS Integers, Sequences, FiniteSets, TLC

VARIABLES
    request,         \* the argument of handler
    pc,              \* the step of handler that runs next
    clean_missing,   \* locals read from the body (lines 42-44)
    normalize_data,
    sort_sales,
    df,              \* the DataFrame: [columns, rows]; a row carries its index label
    mean,            \* locals of the normalize step (lines 72-73)
    std,
    response,        \* what handler returned: statusCode and the decoded body
    raised           \* the exception that left handler, "" when none did

vars == <<request, pc, clean_missing, normalize_data, sort_sales, df, mean, std,
          response, raised>>

----------------------------------------------------------------------------
(* Bounds of the model *)

MaxRows == 3

----------------------------------------------------------------------------
(* Cells *)

Decimals == 4

RECURSIVE Pow10(_)
Pow10(k) == IF k = 0 THEN 1 ELSE 10 * Pow10(k - 1)

Scale == Pow10(Decimals)

NaN == [kind |-> "nan", num |-> 0, str |-> ""]
Num(n) == [kind |-> "num", num |-> n, str |-> ""]
Str(s) == [kind |-> "str", num |-> 0, str |-> s]

IsNaN(c) == c.kind = "nan"

Sentinel == "N/A"

----------------------------------------------------------------------------
(* pd.read_csv and pd.to_numeric *)

\* The fields pandas reads as missing (its default na_values, those used here).
NaTokens == {"", "N/A", "NA", "NaN", "null"}

\* The whole-number fields and the numbers they denote.
NumericValue ==
    ("0" :> 0) @@ ("1" :> 1) @@ ("2" :> 2) @@ ("3" :> 3) @@ ("4" :> 4) @@
    ("5" :> 5) @@ ("6" :> 6) @@ ("7" :> 7) @@ ("8" :> 8) @@ ("9" :> 9)

IsNumeric(t) == t \in DOMAIN NumericValue

IsBlankLine(line) == line = <<"">>

\* read_csv skips blank lines (skip_blank_lines defaults to True).
NonBlank(text) == SelectSeq(text, LAMBDA line : ~IsBlankLine(line))

\* A column is numeric when every field that is not missing is a number;
\* otherwise its fields stay strings.
ColumnIsNumeric(lines, j) ==
    \A i \in 1..Len(lines) : lines[i][j] \in NaTokens \/ IsNumeric(lines[i][j])

ParseField(t, numeric) ==
    IF t \in NaTokens THEN NaN
    ELSE IF numeric THEN Num(NumericValue[t] * Scale)
    ELSE Str(t)

\* pd.read_csv(io.StringIO(raw_data)): the first non-blank line is the header,
\* the others are the rows, labelled 0, 1, ... in order.
ReadCsv(text) ==
    LET lines == NonBlank(text)
        header == Head(lines)
        data == Tail(lines)
    IN  [columns |-> header,
         rows |-> [i \in 1..Len(data) |->
                     [idx |-> i - 1,
                      cells |-> [c \in {header[j] : j \in 1..Len(header)} |->
                                   LET j == CHOOSE k \in 1..Len(header) : header[k] = c
                                   IN  ParseField(data[i][j], ColumnIsNumeric(data, j))]]]]

\* read_csv raises EmptyDataError when the text holds no line to take the
\* header from.
ReadCsvFails(text) == NonBlank(text) = <<>>

HasColumn(d, c) == \E j \in 1..Len(d.columns) : d.columns[j] = c

\* pd.to_numeric(s, errors='coerce') of one cell: numbers stay, strings that
\* denote a number become it, every other string becomes NaN.
ToNumericCell(c) ==
    IF c.kind = "str"
    THEN IF IsNumeric(c.str) THEN Num(NumericValue[c.str] * Scale) ELSE NaN
    ELSE c

SetCell(row, c, v) == [row EXCEPT !.cells = [row.cells EXCEPT ![c] = v]]

\* Lines 58-59.
CoerceSales(d) ==
    IF HasColumn(d, "Sales")
    THEN [d EXCEPT !.rows = [i \in 1..Len(d.rows) |->
                               SetCell(d.rows[i], "Sales",
                                       ToNumericCell(d.rows[i].cells["Sales"]))]]
    ELSE d

----------------------------------------------------------------------------
(* 3.1 df.dropna(inplace=True) *)

RowHasNaN(row) == \E c \in DOMAIN row.cells : IsNaN(row.cells[c])

\* A slip in line 66: dropna(subset=['Sales']), only the rows without a Sales
\* value go.
DropNaOfSalesOnly(d) ==
    IF \E j \in 1..Len(d.columns) : d.columns[j] = "Sales"
    THEN [d EXCEPT !.rows = SelectSeq(d.rows, LAMBDA row : ~IsNaN(row.cells["Sales"]))]
    ELSE d

\* Every row that holds a NaN in any column goes; the others keep their order
\* and their index labels.
DropNa(d) == [d EXCEPT !.rows = SelectSeq(d.rows, LAMBDA row : ~RowHasNaN(row))]

----------------------------------------------------------------------------
(* 3.2 the z-score of the Sales column *)

Abs(x) == IF x < 0 THEN -x ELSE x

RECURSIVE GCD(_, _)
GCD(a, b) == IF b = 0 THEN a ELSE GCD(b, a % b)

RECURSIVE SeqSum(_)
SeqSum(s) == IF s = <<>> THEN 0 ELSE Head(s) + SeqSum(Tail(s))

RECURSIVE SeqGCD(_)
SeqGCD(s) == IF s = <<>> THEN 0 ELSE GCD(Abs(Head(s)), SeqGCD(Tail(s)))

\* The numbers of a column, NaN skipped (skipna defaults to True).
ColumnValues(d, c) ==
    LET cells == [i \in 1..Len(d.rows) |-> d.rows[i].cells[c]]
        kept == SelectSeq(cells, LAMBDA x : ~IsNaN(x))
    IN  [i \in 1..Len(kept) |-> kept[i].num]

\* Series.mean(): sum / count, NaN when nothing is counted.
Mean(vals) == [nan |-> Len(vals) = 0, sum |-> SeqSum(vals), count |-> Len(vals)]

\* Series.std() divides the sum of squared deviations by count - ddof; ddof
\* defaults to 1.
Ddof == 1

\* count * x - sum: the deviation of x from the mean, times count.
Dev(x, m) == m.count * x - m.sum

\* Series.std(): NaN when count <= ddof.  The value is kept exactly as
\* g * sqrt(q / (n - Ddof)) / n, g being the gcd of the scaled deviations and
\* q the sum of the squares of the deviations over g.
Std(vals) ==
    LET m == Mean(vals)
        devs == [i \in 1..Len(vals) |-> Dev(vals[i], m)]
        g0 == SeqGCD(devs)
        g == IF g0 = 0 THEN 1 ELSE g0
    IN  [nan |-> Len(vals) - Ddof <= 0,
         g |-> g,
         q |-> SeqSum([i \in 1..Len(vals) |-> (devs[i] \div g) * (devs[i] \div g)]),
         n |-> Len(vals)]

\* std > 0 (line 75): false for NaN.
StdPositive(s) == ~s.nan /\ s.q > 0

\* floor(a * 10^k / b) by long division.
RECURSIVE LongDiv(_, _, _, _)
LongDiv(quot, rem, b, k) ==
    IF k = 0 THEN quot
    ELSE LongDiv(quot * 10 + (rem * 10) \div b, (rem * 10) % b, b, k - 1)

ScaledQuotient(a, b, k) == LongDiv(a \div b, a % b, b, k)

RECURSIVE Bisect(_, _, _)
Bisect(lo, hi, t) ==
    IF lo = hi THEN lo
    ELSE LET mid == (lo + hi + 1) \div 2
         IN  IF mid * mid <= t THEN Bisect(mid, hi, t) ELSE Bisect(lo, mid - 1, t)

\* floor(sqrt(t)) for 0 <= t < 2^31.
ISqrt(t) == Bisect(0, 46340, t)

\* ((x - mean) / std).round(Decimals), in units of 10^-Decimals (lines 76, 81).
\* With e = Dev(x) / g the quotient is e * sqrt((n - Ddof) / q); its absolute
\* value rounded to the nearest unit is floor((sqrt(4 * 10^(2*Decimals) * e^2 *
\* (n - Ddof) / q) + 1) / 2).
ZScore(x, m, s) ==
    LET e == Dev(x, m) \div s.g
        t == ScaledQuotient(4 * e * e * (s.n - Ddof), s.q, 2 * Decimals)
        k == (ISqrt(t) + 1) \div 2
    IN  IF e < 0 THEN -k ELSE k

\* df[name] = values: the column is overwritten when the frame has it and is
\* added as the last column when it has not.
AssignColumn(d, name, values) ==
    [columns |-> IF HasColumn(d, name) THEN d.columns ELSE Append(d.columns, name),
     rows |-> [i \in 1..Len(d.rows) |->
                 [idx |-> d.rows[i].idx,
                  cells |-> [c \in DOMAIN d.rows[i].cells \cup {name} |->
                               IF c = name THEN values[i] ELSE d.rows[i].cells[c]]]]]

\* df.drop(columns=[name], inplace=True, errors='ignore')
DropColumn(d, name) ==
    [columns |-> SelectSeq(d.columns, LAMBDA c : c # name),
     rows |-> [i \in 1..Len(d.rows) |->
                 [idx |-> d.rows[i].idx,
                  cells |-> [c \in DOMAIN d.rows[i].cells \ {name} |->
                               d.rows[i].cells[c]]]]]

\* Line 76: (df['Sales'] - mean) / std, NaN where Sales is NaN.  The rounding
\* of line 81 is taken here, the quotient being irrational in general.
ZScoreCell(c, m, s) == IF IsNaN(c) THEN NaN ELSE Num(ZScore(c.num, m, s))

\* A slip in lines 77-78: the branch for std not above 0 leaves the column as
\* it is instead of setting it to 0.
ZScoreColumnKeepingValues(d, m, s) ==
    [i \in 1..Len(d.rows) |->
        IF StdPositive(s) THEN ZScoreCell(d.rows[i].cells["Sales"], m, s)
        ELSE d.rows[i].cells["Sales"]]

\* Lines 75-78: the new column Sales_ZScore.  The scalar 0 of line 78 is
\* broadcast to every row of the frame.
ZScoreColumn(d, m, s) ==
    [i \in 1..Len(d.rows) |->
        IF StdPositive(s) THEN ZScoreCell(d.rows[i].cells["Sales"], m, s) ELSE Num(0)]

\* Lines 75-82 under the mean m and the standard deviation s: Sales_ZScore is
\* assigned, copied over Sales and dropped.
NormalizeWith(d, m, s) ==
    LET d1 == AssignColumn(d, "Sales_ZScore", ZScoreColumn(d, m, s))
        d2 == AssignColumn(d1, "Sales",
                           [i \in 1..Len(d1.rows) |-> d1.rows[i].cells["Sales_ZScore"]])
    IN  DropColumn(d2, "Sales_ZScore")

\* Lines 71-82, for a frame with a Sales column: nothing is done when the
\* frame has no row.
NormalizeSales(d) ==
    IF Len(d.rows) = 0 THEN d
    ELSE NormalizeWith(d, Mean(ColumnValues(d, "Sales")), Std(ColumnValues(d, "Sales")))

----------------------------------------------------------------------------
(* 3.3 df.sort_values(by='Sales', ascending=False, na_position='last') *)

SalesOf(row) == row.cells["Sales"]

Orderings(s) ==
    {[i \in 1..Len(s) |-> s[p[i]]] :
        p \in {f \in [1..Len(s) -> 1..Len(s)] :
                  \A i, j \in 1..Len(s) : i # j => f[i] # f[j]}}

NonIncreasing(rows) ==
    \A i, j \in 1..Len(rows) : i < j => SalesOf(rows[i]).num >= SalesOf(rows[j]).num

\* sort_values is called without kind=, so it sorts with the default
\* 'quicksort', which is not a stable sort: the rows with a Sales value end up
\* in some non-increasing order, rows of equal Sales in any order.  The rows
\* whose Sales is NaN are appended after them in their original order.
SortOutcomes(d) ==
    LET valued == SelectSeq(d.rows, LAMBDA row : ~IsNaN(SalesOf(row)))
        missing == SelectSeq(d.rows, LAMBDA row : IsNaN(SalesOf(row)))
    IN  {[d EXCEPT !.rows = p \o missing] :
            p \in {q \in Orderings(valued) : NonIncreasing(q)}}

----------------------------------------------------------------------------
(* 4-5 statistics and the response *)

RECURSIVE SeqMin(_)
SeqMin(s) ==
    IF Len(s) = 1 THEN Head(s)
    ELSE LET m == SeqMin(Tail(s)) IN IF Head(s) < m THEN Head(s) ELSE m

RECURSIVE SeqMax(_)
SeqMax(s) ==
    IF Len(s) = 1 THEN Head(s)
    ELSE LET m == SeqMax(Tail(s)) IN IF Head(s) > m THEN Head(s) ELSE m

\* Series.describe() of a non-empty numeric series; of its entries the count,
\* the mean (as sum and count), the min and the max are kept.
Describe(vals) ==
    [count |-> Len(vals), mean |-> Mean(vals), min |-> SeqMin(vals), max |-> SeqMax(vals)]

\* A slip in lines 95-97: the rows are counted without dropna().
StatisticsCountingRows(d) ==
    IF HasColumn(d, "Sales") /\ ColumnValues(d, "Sales") # <<>>
    THEN [c \in {"Sales"} |->
            [Describe(ColumnValues(d, "Sales")) EXCEPT !.count = Len(d.rows)]]
    ELSE [c \in {} |-> Describe(<<0>>)]

\* Lines 91-97: valid_sales = df['Sales'].dropna(); no entry when it is empty.
Statistics(d) ==
    IF HasColumn(d, "Sales") /\ ColumnValues(d, "Sales") # <<>>
    THEN [c \in {"Sales"} |-> Describe(ColumnValues(d, "Sales"))]
    ELSE [c \in {} |-> Describe(<<0>>)]

FillNaCell(c) == IF IsNaN(c) THEN Str(Sentinel) ELSE c

\* Line 101: df.fillna('N/A').to_dict('records'): one mapping per row, in row
\* order, the index labels left out.
Records(d) ==
    [i \in 1..Len(d.rows) |->
        [c \in DOMAIN d.rows[i].cells |-> FillNaCell(d.rows[i].cells[c])]]

NoStatistics == [c \in {} |-> Describe(<<0>>)]

NoResponse ==
    [statusCode |-> 0, kind |-> "none", success |-> FALSE, message |-> "",
     cause |-> "", processed_data |-> <<>>, statistics |-> NoStatistics]

\* Lines 24-28: the answer to the CORS preflight, with an empty body.
PreflightResponse == [NoResponse EXCEPT !.statusCode = 200, !.kind = "empty"]

\* Lines 31-35.
MethodNotAllowedResponse ==
    [NoResponse EXCEPT !.statusCode = 405, !.kind = "json",
                       !.message = "Method Not Allowed"]

\* Lines 116-124: the message embeds str(e).
ErrorResponse(e) ==
    [NoResponse EXCEPT !.statusCode = 500, !.kind = "json",
                       !.message = "backend error", !.cause = e]

\* A slip in lines 46-52: the empty data is raised as an error, which the
\* except block turns into the generic 500.
EmptyDataAsServerError == ErrorResponse("ValueError")

\* Lines 48-52; the message says that the data is empty.
EmptyDataResponse ==
    [NoResponse EXCEPT !.statusCode = 400, !.kind = "json", !.message = "data is empty"]

\* Lines 103-114.
SuccessResponse(d) ==
    [statusCode |-> 200, kind |-> "json", success |-> TRUE,
     message |-> "analysis completed", cause |-> "",
     processed_data |-> Records(d), statistics |-> Statistics(d)]

----------------------------------------------------------------------------
(* The requests *)

\* The fields of a Sales column: absent, not a number, and whole numbers.  A
\* table of Sales alone also holds 5.
SalesFields == {"", "abc", "1", "2", "3"}
LoneSalesFields == SalesFields \cup {"5"}
OtherFields == {"", "x"}
ZScoreFields == {"x"}

Headers == {<<"Sales">>, <<"Region">>, <<"Sales", "Region">>, <<"Sales", "Sales_ZScore">>}

FieldsOf(column) ==
    CASE column = "Sales" -> SalesFields
      [] column = "Sales_ZScore" -> ZScoreFields
      [] OTHER -> OtherFields

\* The lines under a header of one or two columns: one field per column.
LinesOf(header) ==
    IF header = <<"Sales">>
    THEN {<<a>> : a \in LoneSalesFields}
    ELSE IF Len(header) = 1
    THEN {<<a>> : a \in FieldsOf(header[1])}
    ELSE {<<a, b>> : a \in FieldsOf(header[1]), b \in FieldsOf(header[2])}

\* The CSV texts: the empty string, a text of one empty line, and a header
\* followed by at most MaxRows lines.
Texts ==
    {<<>>, << <<"">> >>} \cup
    UNION {{<<header>> \o t : t \in UNION {[1..n -> LinesOf(header)] : n \in 0..MaxRows}} :
              header \in Headers}

NoBody ==
    [kind |-> "absent", hasData |-> FALSE, data |-> <<>>,
     clean_missing |-> FALSE, normalize_data |-> FALSE, sort_sales |-> FALSE]

\* request['body']: absent, not JSON, JSON that is no object, or an object
\* with or without the data field and with the three flags.
Bodies ==
    {[NoBody EXCEPT !.kind = k] : k \in {"absent", "invalid", "array"}} \cup
    {[kind |-> "object", hasData |-> h, data |-> t,
      clean_missing |-> c, normalize_data |-> n, sort_sales |-> s] :
        h \in {FALSE}, t \in {<<>>}, c \in BOOLEAN, n \in BOOLEAN, s \in BOOLEAN} \cup
    {[kind |-> "object", hasData |-> h, data |-> t,
      clean_missing |-> c, normalize_data |-> n, sort_sales |-> s] :
        h \in {TRUE}, t \in Texts, c \in BOOLEAN, n \in BOOLEAN, s \in BOOLEAN}

Requests ==
    {[hasMethod |-> FALSE, httpMethod |-> "", body |-> NoBody]} \cup
    {[hasMethod |-> TRUE, httpMethod |-> m, body |-> NoBody] : m \in {"OPTIONS", "GET"}} \cup
    {[hasMethod |-> TRUE, httpMethod |-> "POST", body |-> b] : b \in Bodies}

----------------------------------------------------------------------------
(* handler *)

NoFrame == [columns |-> <<>>, rows |-> <<>>]

Init ==
    /\ request \in Requests
    /\ pc = "dispatch"
    /\ clean_missing = FALSE
    /\ normalize_data = FALSE
    /\ sort_sales = FALSE
    /\ df = NoFrame
    /\ mean = Mean(<<>>)
    /\ std = Std(<<>>)
    /\ response = NoResponse
    /\ raised = ""

\* Lines 23-35.  request['httpMethod'] is read outside the try block: a
\* request without the key raises KeyError out of handler.
Dispatch ==
    /\ pc = "dispatch"
    /\ IF ~request.hasMethod
       THEN /\ raised' = "KeyError"
            /\ response' = response
            /\ pc' = "done"
       ELSE IF request.httpMethod = "OPTIONS"
       THEN /\ response' = PreflightResponse
            /\ raised' = raised
            /\ pc' = "done"
       ELSE IF request.httpMethod # "POST"
       THEN /\ response' = MethodNotAllowedResponse
            /\ raised' = raised
            /\ pc' = "done"
       ELSE /\ pc' = "parse"
            /\ UNCHANGED <<response, raised>>
    /\ UNCHANGED <<request, clean_missing, normalize_data, sort_sales, df, mean, std>>

\* What json.loads(request['body']) and body.get raise, "" when nothing.
BodyError(b) ==
    CASE b.kind = "absent" -> "KeyError"
      [] b.kind = "invalid" -> "JSONDecodeError"
      [] b.kind = "array" -> "AttributeError"
      [] OTHER -> ""

\* body.get('data', '')
RawData(b) == IF b.hasData THEN b.data ELSE <<>>

\* Lines 37-59, inside the try block.
Parse ==
    /\ pc = "parse"
    /\ IF BodyError(request.body) # ""
       THEN /\ response' = ErrorResponse(BodyError(request.body))
            /\ pc' = "done"
            /\ UNCHANGED <<clean_missing, normalize_data, sort_sales, df>>
       ELSE /\ clean_missing' = request.body.clean_missing
            /\ normalize_data' = request.body.normalize_data
            /\ sort_sales' = request.body.sort_sales
            /\ IF RawData(request.body) = <<>>
               THEN /\ response' = EmptyDataResponse
                    /\ pc' = "done"
                    /\ df' = df
               ELSE IF ReadCsvFails(RawData(request.body))
               THEN /\ response' = ErrorResponse("EmptyDataError")
                    /\ pc' = "done"
                    /\ df' = df
               ELSE /\ df' = CoerceSales(ReadCsv(RawData(request.body)))
                    /\ pc' = "clean"
                    /\ response' = response
    /\ UNCHANGED <<request, mean, std, raised>>

\* Lines 64-66.
Clean ==
    /\ pc = "clean"
    /\ df' = IF clean_missing THEN DropNa(df) ELSE df
    /\ pc' = "normalize"
    /\ UNCHANGED <<request, clean_missing, normalize_data, sort_sales, mean, std,
                   response, raised>>

\* A slip in the order of the steps: the mean and the standard deviation are
\* taken from the table as parsed, before the rows with missing values go.
NormalizeOverParsed ==
    /\ pc = "normalize"
    /\ IF normalize_data /\ HasColumn(df, "Sales")
       THEN LET parsed == CoerceSales(ReadCsv(RawData(request.body)))
                m == Mean(ColumnValues(parsed, "Sales"))
                s == Std(ColumnValues(parsed, "Sales"))
            IN  /\ df' = IF Len(df.rows) = 0 THEN df ELSE NormalizeWith(df, m, s)
                /\ IF Len(df.rows) = 0
                   THEN UNCHANGED <<mean, std>>
                   ELSE mean' = m /\ std' = s
       ELSE UNCHANGED <<df, mean, std>>
    /\ pc' = "sort"
    /\ UNCHANGED <<request, clean_missing, normalize_data, sort_sales, response, raised>>

\* Lines 69-82.
Normalize ==
    /\ pc = "normalize"
    /\ IF normalize_data /\ HasColumn(df, "Sales")
       THEN /\ df' = NormalizeSales(df)
            /\ IF Len(df.rows) = 0
               THEN UNCHANGED <<mean, std>>
               ELSE /\ mean' = Mean(ColumnValues(df, "Sales"))
                    /\ std' = Std(ColumnValues(df, "Sales"))
       ELSE UNCHANGED <<df, mean, std>>
    /\ pc' = "sort"
    /\ UNCHANGED <<request, clean_missing, normalize_data, sort_sales, response, raised>>

\* Lines 86-88.
Sort ==
    /\ pc = "sort"
    /\ IF sort_sales /\ HasColumn(df, "Sales")
       THEN df' \in SortOutcomes(df)
       ELSE df' = df
    /\ pc' = "respond"
    /\ UNCHANGED <<request, clean_missing, normalize_data, sort_sales, mean, std,
                   response, raised>>

\* Lines 91-114.
Respond ==
    /\ pc = "respond"
    /\ response' = SuccessResponse(df)
    /\ pc' = "done"
    /\ UNCHANGED <<request, clean_missing, normalize_data, sort_sales, df, mean, std,
                   raised>>

Next == Dispatch \/ Parse \/ Clean \/ Normalize \/ Sort \/ Respond

Spec == Init /\ [][Next]_vars

----------------------------------------------------------------------------
(* What the properties below speak of *)

\* The request is a POST whose body decodes to a JSON object.
PostsObject == request.hasMethod /\ request.httpMethod = "POST" /\ request.body.kind = "object"

Succeeded == pc = "done" /\ response.success

\* The table as parsed from the request, Sales coerced, before any flag acts.
ParsedFrame == CoerceSales(ReadCsv(RawData(request.body)))

\* The rows of the table f without a missing value in any column.
CompleteRowsOf(f) ==
    {i \in 1..Len(f.rows) : \A c \in DOMAIN f.rows[i].cells : f.rows[i].cells[c].kind # "nan"}

\* The rows of the parsed table f that reach the normalize step.
SurvivingRowsOf(f) ==
    IF request.body.clean_missing THEN CompleteRowsOf(f) ELSE 1..Len(f.rows)

\* The Sales numbers of the parsed table f that reach the normalize step.
SurvivingSalesOf(f) ==
    {f.rows[i].cells["Sales"].num :
        i \in {k \in SurvivingRowsOf(f) : f.rows[k].cells["Sales"].kind = "num"}}

ColumnsOf(f) == {f.columns[j] : j \in 1..Len(f.columns)}

\* The Sales cells of the rows of the response, in order.
OutSales == [i \in 1..Len(response.processed_data) |-> response.processed_data[i]["Sales"]]

----------------------------------------------------------------------------
(* C1 *)

\* C1: a POST whose JSON object has no data field, or the empty string as
\* data, is answered with the 400 validation failure whatever the three flags
\* are: never with success, never with the generic 500, and the pipeline is
\* never entered.
C1_EmptyDataRejected ==
    (PostsObject /\ (~request.body.hasData \/ request.body.data = <<>>)) =>
        /\ ~response.success
        /\ pc \in {"dispatch", "parse", "done"}
        /\ pc = "done" =>
             /\ raised = ""
             /\ response.statusCode = 400
             /\ response.kind = "json"
             /\ response.message # ""
             /\ response.processed_data = <<>>

C1_Witness ==
    /\ pc = "done"
    /\ PostsObject
    /\ request.body.hasData /\ request.body.data = <<>>
    /\ request.body.clean_missing /\ request.body.normalize_data /\ request.body.sort_sales
    /\ response.statusCode = 400
    /\ ~response.success

----------------------------------------------------------------------------
(* C2 *)

\* C2: whatever step fails, handler returns a structured success=false
\* response with a message, and no exception leaves handler.
C2_EveryFailureStructured ==
    pc = "done" =>
        /\ raised = ""
        /\ \/ response.success
           \/ response = PreflightResponse
           \/ response.kind = "json" /\ ~response.success /\ response.message # ""

----------------------------------------------------------------------------
(* C3 *)

\* C3: with clean_missing on and normalize and sort off, the rows of the
\* response are exactly the parsed rows without a missing value in any column
\* (a Sales cell that failed coercion is missing), in their input order; with
\* clean_missing off no row is removed, whatever the other flags.
C3_CleanKeepsCompleteRowsInOrder ==
    Succeeded =>
        LET rows == ParsedFrame.rows
            out == response.processed_data
            complete == CompleteRowsOf(ParsedFrame)
            Rank(i) == Cardinality({j \in complete : j <= i})
        IN  /\ (request.body.clean_missing /\ ~request.body.normalize_data
                  /\ ~request.body.sort_sales) =>
                   /\ Len(out) = Cardinality(complete)
                   /\ \A i \in complete : out[Rank(i)] = rows[i].cells
            /\ ~request.body.clean_missing =>
                   /\ Len(out) = Len(rows)
                   /\ {df.rows[i].idx : i \in 1..Len(df.rows)} = {i - 1 : i \in 1..Len(rows)}

C3_Witness ==
    /\ Succeeded
    /\ request.body.clean_missing /\ ~request.body.normalize_data /\ ~request.body.sort_sales
    /\ request.body.data = << <<"Sales", "Region">>, <<"3", "x">>, <<"abc", "x">>, <<"1", "x">> >>
    /\ Len(response.processed_data) = 2
    /\ OutSales = <<Num(3 * Scale), Num(1 * Scale)>>

----------------------------------------------------------------------------
(* C4 *)

\* C4: with sort_sales on and a Sales column, the rows come out non-increasing
\* by Sales among the rows that have a Sales value, every row with a missing
\* Sales after every row with a Sales value, and rows of equal Sales in their
\* original relative order.
C4_SortStableMissingLast ==
    (Succeeded /\ request.body.sort_sales /\ HasColumn(df, "Sales")) =>
        \A i, j \in 1..Len(df.rows) :
            i < j =>
                LET a == df.rows[i]
                    b == df.rows[j]
                IN  /\ IsNaN(SalesOf(a)) => IsNaN(SalesOf(b))
                    /\ (~IsNaN(SalesOf(a)) /\ ~IsNaN(SalesOf(b))) =>
                           SalesOf(a).num >= SalesOf(b).num
                    /\ SalesOf(a) = SalesOf(b) => a.idx < b.idx

----------------------------------------------------------------------------
(* C5 *)

\* C5: the normalize step leaves every missing Sales cell missing, in each of
\* its branches, and leaves the table as it is when the Sales column has rows
\* but no value.
C5_MissingStaysMissing ==
    [][(pc = "normalize" /\ HasColumn(df, "Sales")) =>
          /\ Len(df'.rows) = Len(df.rows)
          /\ \A i \in 1..Len(df.rows) :
                 IsNaN(SalesOf(df.rows[i])) => IsNaN(SalesOf(df'.rows[i]))
          /\ ColumnValues(df, "Sales") = <<>> => df' = df]_vars

----------------------------------------------------------------------------
(* C6 *)

----------------------------------------------------------------------------
(* C7 *)

\* C7: Sales 1, 2, 3 with normalize_data and sort_sales on come out as
\* 1.2247, 0, -1.2247, in this order.
C7_ScenarioD ==
    (Succeeded /\ request.body.normalize_data /\ request.body.sort_sales
       /\ request.body.data = << <<"Sales">>, <<"1">>, <<"2">>, <<"3">> >>) =>
        OutSales = <<Num(12247), Num(0), Num(-12247)>>

----------------------------------------------------------------------------
(* C8 *)

\* C8: whatever the column names and the flags, every row of the response has
\* exactly the columns of the parsed header, and the cells of every column
\* other than Sales are what was parsed.
C8_ColumnsKept ==
    Succeeded =>
        LET parsed == ParsedFrame
            header == ColumnsOf(parsed)
        IN  \A i \in 1..Len(df.rows) :
                /\ DOMAIN response.processed_data[i] = header
                /\ DOMAIN df.rows[i].cells = header
                /\ \A c \in header \ {"Sales"} :
                       df.rows[i].cells[c] = parsed.rows[df.rows[i].idx + 1].cells[c]

----------------------------------------------------------------------------
(* C9 *)

\* The sum of f over the set S.
RECURSIVE SumOver(_, _)
SumOver(S, f) ==
    IF S = {} THEN 0
    ELSE LET x == CHOOSE y \in S : TRUE IN f[x] + SumOver(S \ {x}, f)

\* C9: in a successful response the statistics of Sales count exactly the rows
\* of processed_data whose Sales is not the sentinel, their mean, min and max
\* are those of the numbers in these rows, and statistics is empty exactly
\* when there is no Sales column or no row with a Sales value.
C9_StatisticsFromValuesOnly ==
    Succeeded =>
        LET st == response.statistics
            out == response.processed_data
            hasSales == "Sales" \in ColumnsOf(df)
            valued == IF hasSales
                      THEN {i \in 1..Len(out) : out[i]["Sales"] # Str(Sentinel)}
                      ELSE {}
            Value(i) == out[i]["Sales"].num
        IN  /\ DOMAIN st \subseteq {"Sales"}
            /\ hasSales = ("Sales" \in ColumnsOf(ParsedFrame))
            /\ (DOMAIN st = {}) <=> (~hasSales \/ valued = {})
            /\ DOMAIN st # {} =>
                   /\ \A i \in valued : out[i]["Sales"].kind = "num"
                   /\ st["Sales"].count = Cardinality(valued)
                   /\ st["Sales"].mean.count = Cardinality(valued)
                   /\ st["Sales"].mean.sum = SumOver(valued, [i \in valued |-> Value(i)])
                   /\ \E i \in valued : st["Sales"].min = Value(i)
                   /\ \E i \in valued : st["Sales"].max = Value(i)
                   /\ \A i \in valued :
                          st["Sales"].min <= Value(i) /\ Value(i) <= st["Sales"].max

C9_Witness ==
    /\ Succeeded
    /\ request.body.sort_sales
    /\ request.body.data = << <<"Sales", "Region">>, <<"abc", "x">>, <<"2", "x">>, <<"3", "">> >>
    /\ OutSales = <<Num(3 * Scale), Num(2 * Scale), Str(Sentinel)>>
    /\ response.statistics["Sales"].count = 2

----------------------------------------------------------------------------
(* C10 *)

\* C10: the steps run in the order clean, normalize, sort.  With clean_missing
\* and normalize_data on, the mean and the standard deviation of the normalize
\* step are those of the rows that survive cleaning, and every Sales value of
\* the result is the z-score under them; with normalize_data and sort_sales on
\* the rows are in non-increasing order of the normalized values.
C10_CleanThenNormalizeThenSort ==
    (Succeeded /\ request.body.normalize_data) =>
        LET parsed == ParsedFrame
            rows == parsed.rows
            complete == CompleteRowsOf(parsed)
            values == SurvivingSalesOf(parsed)
            n == Cardinality(complete)
            total == SumOver(complete, [i \in complete |-> rows[i].cells["Sales"].num])
            m == [nan |-> FALSE, sum |-> total, count |-> n]
        IN  "Sales" \in ColumnsOf(parsed) =>
                /\ (request.body.clean_missing /\ n > 0) =>
                       /\ mean = m
                       /\ std.n = n
                       /\ std.nan = (n <= 1)
                       /\ (std.q = 0) = (Cardinality(values) = 1)
                       /\ Len(df.rows) = n
                       /\ Cardinality(values) > 1 =>
                              \A i \in 1..Len(df.rows) :
                                  SalesOf(df.rows[i]) =
                                      Num(ZScore(rows[df.rows[i].idx + 1].cells["Sales"].num,
                                                 m, std))
                /\ request.body.sort_sales =>
                       \A i, j \in 1..Len(df.rows) :
                           (i < j /\ ~IsNaN(SalesOf(df.rows[i])) /\ ~IsNaN(SalesOf(df.rows[j])))
                               => /\ SalesOf(df.rows[i]).num >= SalesOf(df.rows[j]).num
                                  /\ OutSales[i].num >= OutSales[j].num

C10_Witness ==
    /\ Succeeded
    /\ request.body.clean_missing /\ request.body.normalize_data /\ request.body.sort_sales
    /\ request.body.data = << <<"Sales", "Region">>, <<"1", "x">>, <<"2", "">>, <<"3", "x">> >>
    /\ mean = [nan |-> FALSE, sum |-> 4 * Scale, count |-> 2]
    /\ OutSales = <<Num(7071), Num(-7071)>>

====
